---- MODULE Spec2Model ----
(***************************************************************************)
(* A model of secrets-manager: the path-scoped key/value store             *)
(* (Configuration<T>), key references (KeyRef), configuration values       *)
(* (ConfigValue), vaults and the Config aggregate.                         *)
(*                                                                         *)
(* A Rust String is a sequence of tokens (<<"a", "b">>); a PathBuf is the   *)
(* sequence of its components, the root directory being the component      *)
(* RootDir, so "/a/b" is <<RootDir, <<"a">>, <<"b">>>> and "" is <<>>.       *)
(* PathBuf equality and hashing are by components, and so are these.       *)
(* An Option is None or Some(x).                                           *)
(***************************************************************************)
EXTENDS Naturals, Sequences, FiniteSets, TLC

VARIABLES
    cwd,            \* Configuration.cwd of the standalone store
    data,           \* Configuration.data of the standalone store
    config,         \* Config.config: the data of the Configuration<ConfigValue>
    vaults,         \* Config.vaults: name -> [info, secret_value]
    default_vault,  \* Config.default_vault: Option<String>
    context,        \* Config.context
    updated,        \* Config.updated: Vec<String>
    remote,         \* the backing secret store: secret id -> [version, payload]
    file,           \* the descriptor file the Config was loaded from
    pc,             \* the invocation: "loaded", "saved" or "discarded"
    mutated,        \* history: vaults whose store changed since load
    input,          \* the arguments of the invocation being run
    last,           \* history: the last operation, its arguments and result
    nops            \* number of mutating operations so far

vars == <<cwd, data, config, vaults, default_vault, context, updated,
          remote, file, pc, mutated, input, last, nops>>

storeVars == <<cwd, data>>
configVars == <<config, vaults, default_vault, context, updated>>
envVars == <<remote, file, pc, mutated>>

(***************************************************************************)
(* Bounds.                                                                 *)
(***************************************************************************)
MaxOps == 3

(***************************************************************************)
(* Option.                                                                 *)
(***************************************************************************)
None == [some |-> FALSE]

Some(x) == [some |-> TRUE, v |-> x]

Min(S) == CHOOSE x \in S : \A y \in S : x <= y

Max(S) == CHOOSE x \in S : \A y \in S : x >= y

(***************************************************************************)
(* std::path: the operations of Path and PathBuf the program uses.         *)
(***************************************************************************)
RootDir == <<"/">>

Root == <<RootDir>>

is_absolute(p) == Len(p) > 0 /\ p[1] = RootDir

\* Path::ancestors: the path, then each parent, down to "/" (absolute) or
\* "" (relative).
ancestors(p) ==
    LET lo == IF is_absolute(p) THEN 1 ELSE 0
    IN  [i \in 1..(Len(p) - lo + 1) |-> SubSeq(p, 1, Len(p) - i + 1)]

\* Path::join / PathBuf::push: an absolute argument replaces the base.
join(base, p) == IF is_absolute(p) THEN p ELSE base \o p

\* Path::strip_prefix("/") of an absolute path.
strip_root(p) == SubSeq(p, 2, Len(p))

\* Path::file_name: the last normal component, if any.
file_name(p) ==
    IF Len(p) = 0 \/ p[Len(p)] = RootDir THEN None ELSE Some(p[Len(p)])

\* [T]::join(sep) on strings
RECURSIVE join_str(_, _)
join_str(parts, sep) ==
    IF parts = <<>> THEN <<>>
    ELSE IF Len(parts) = 1 THEN parts[1]
    ELSE parts[1] \o <<sep>> \o join_str(Tail(parts), sep)

\* Path::display / Serialize for PathBuf: the components, separated by "/"
path_display(p) ==
    IF is_absolute(p) THEN <<"/">> \o join_str(strip_root(p), "/")
    ELSE join_str(p, "/")

Range(f) == {f[i] : i \in DOMAIN f}

(***************************************************************************)
(* Configuration<T> (config.rs).  data: path -> (key -> T).                *)
(***************************************************************************)
EmptyMap == <<>>

Insert(m, k, v) == [j \in DOMAIN m \cup {k} |-> IF j = k THEN v ELSE m[j]]

Delete(m, k) == [j \in DOMAIN m \ {k} |-> m[j]]

\* HashMap::extend: the entries of `more` overwrite those of `acc`.
Extend(acc, more) ==
    [j \in DOMAIN acc \cup DOMAIN more |->
        IF j \in DOMAIN more THEN more[j] ELSE acc[j]]

Lookup(m, k) == IF k \in DOMAIN m THEN Some(m[k]) ELSE None

get_value_at_rootfirst(d, p, key) ==
    LET anc == ancestors(p)
        hits == {i \in DOMAIN anc :
                    anc[i] \in DOMAIN d /\ key \in DOMAIN d[anc[i]]}
    IN  IF hits = {} THEN None ELSE Some(d[anc[Max(hits)]][key])

\* Configuration::get_value_at: the first ancestor, from the path upwards,
\* whose map holds the key.
get_value_at(d, p, key) ==
    LET anc == ancestors(p)
        hits == {i \in DOMAIN anc :
                    anc[i] \in DOMAIN d /\ key \in DOMAIN d[anc[i]]}
    IN  IF hits = {} THEN None ELSE Some(d[anc[Min(hits)]][key])

\* Configuration::get_value
get_value(d, c, key) == get_value_at(d, c, key)

RECURSIVE fold_extend(_, _, _, _)
fold_extend(d, anc, i, acc) ==
    IF i = 0 THEN acc
    ELSE fold_extend(d, anc, i - 1,
                     IF anc[i] \in DOMAIN d THEN Extend(acc, d[anc[i]]) ELSE acc)

get_values_for_cwd_leaffirst(d, c) ==
    LET anc == ancestors(c)
        rev == [i \in DOMAIN anc |-> anc[Len(anc) - i + 1]]
    IN  fold_extend(d, rev, Len(rev), EmptyMap)

\* Configuration::get_values_for_cwd: the ancestors reversed (root first),
\* those without a map skipped, folded with extend.
get_values_for_cwd(d, c) ==
    LET anc == ancestors(c)
    IN  fold_extend(d, anc, Len(anc), EmptyMap)

set_value_keep(d, c, key, value) ==
    IF c \in DOMAIN d /\ key \in DOMAIN d[c] THEN d
    ELSE Insert(d, c, Insert(IF c \in DOMAIN d THEN d[c] ELSE EmptyMap, key, value))

set_value_at_root(d, c, key, value) ==
    Insert(d, Root, Insert(IF Root \in DOMAIN d THEN d[Root] ELSE EmptyMap, key, value))

\* Configuration::set_value: entry(cwd).or_default().insert(key, value)
set_value(d, c, key, value) ==
    Insert(d, c, Insert(IF c \in DOMAIN d THEN d[c] ELSE EmptyMap, key, value))

\* the Option<T> HashMap::insert returns
set_value_ret(d, c, key) ==
    IF c \in DOMAIN d THEN Lookup(d[c], key) ELSE None

remove_value_walk(d, c, key) ==
    LET anc == ancestors(c)
        hits == {i \in DOMAIN anc :
                    anc[i] \in DOMAIN d /\ key \in DOMAIN d[anc[i]]}
    IN  IF hits = {} THEN d
        ELSE [d EXCEPT ![anc[Min(hits)]] = Delete(@, key)]

\* Configuration::remove_value: data.get_mut(cwd).and_then(|kv| kv.remove(key))
remove_value(d, c, key) ==
    IF c \in DOMAIN d THEN [d EXCEPT ![c] = Delete(@, key)] ELSE d

remove_value_ret(d, c, key) ==
    IF c \in DOMAIN d THEN Lookup(d[c], key) ELSE None

(***************************************************************************)
(* The inputs of the standalone store: the paths, keys and values of       *)
(* config.rs's tests ("/", "/foo", "/foo/bar") and a sibling.              *)
(***************************************************************************)
PFoo == <<RootDir, <<"foo">>>>

PFooBar == <<RootDir, <<"foo">>, <<"bar">>>>

PFem == <<RootDir, <<"fem">>>>

StorePaths == {Root, PFoo, PFooBar, PFem}

StoreKeys == {<<"foo">>, <<"uri">>}

StoreVals == {<<"bar1">>, <<"bar2">>}

(***************************************************************************)
(* The state of the Config aggregate while the standalone store runs.      *)
(***************************************************************************)
NoInput == [cmd |-> "none"]

NoLast == [op |-> "none"]

IdleConfig ==
    /\ config = EmptyMap
    /\ vaults = EmptyMap
    /\ default_vault = None
    /\ context = <<>>
    /\ updated = <<>>
    /\ remote = EmptyMap
    /\ file = None
    /\ pc = "loaded"
    /\ mutated = {}
    /\ input = NoInput

(***************************************************************************)
(* The standalone store: a Configuration<String> as config.rs's tests and  *)
(* SecretManager use it.                                                    *)
(***************************************************************************)
\* Configuration::new(cwd)
InitStore ==
    /\ cwd \in StorePaths
    /\ data = EmptyMap
    /\ last = NoLast
    /\ nops = 0
    /\ IdleConfig

\* Configuration::with_path
WithPath(p) ==
    /\ cwd' = p
    /\ UNCHANGED <<data, last, nops>>
    /\ UNCHANGED <<configVars, envVars, input>>

SetValue(key, value) ==
    /\ nops < MaxOps
    /\ data' = set_value(data, cwd, key, value)
    /\ last' = [op |-> "set_value", path |-> cwd, key |-> key, value |-> value,
                ret |-> set_value_ret(data, cwd, key), pre |-> data]
    /\ nops' = nops + 1
    /\ UNCHANGED <<cwd, configVars, envVars, input>>

RemoveValue(key) ==
    /\ nops < MaxOps
    /\ data' = remove_value(data, cwd, key)
    /\ last' = [op |-> "remove_value", path |-> cwd, key |-> key,
                ret |-> remove_value_ret(data, cwd, key), pre |-> data]
    /\ nops' = nops + 1
    /\ UNCHANGED <<cwd, configVars, envVars, input>>

GetValueAt(p, key) ==
    /\ last' = [op |-> "get_value_at", path |-> p, key |-> key,
                ret |-> get_value_at(data, p, key)]
    /\ UNCHANGED <<cwd, data, nops, configVars, envVars, input>>

GetValue(key) ==
    /\ last' = [op |-> "get_value", path |-> cwd, key |-> key,
                ret |-> get_value(data, cwd, key)]
    /\ UNCHANGED <<cwd, data, nops, configVars, envVars, input>>

GetValuesForCwd ==
    /\ last' = [op |-> "get_values_for_cwd", path |-> cwd,
                ret |-> get_values_for_cwd(data, cwd)]
    /\ UNCHANGED <<cwd, data, nops, configVars, envVars, input>>

NextStore ==
    \/ \E p \in StorePaths : WithPath(p)
    \/ \E k \in StoreKeys, v \in StoreVals : SetValue(k, v)
    \/ \E k \in StoreKeys : RemoveValue(k)
    \/ \E p \in StorePaths, k \in StoreKeys : GetValueAt(p, k)
    \/ \E k \in StoreKeys : GetValue(k)
    \/ GetValuesForCwd

SpecStore == InitStore /\ [][NextStore]_vars

(***************************************************************************)
(* Properties of the standalone store.                                     *)
(***************************************************************************)
\* q is p or an ancestor of p
IsAncestorOrSelf(q, p) == Len(q) <= Len(p) /\ SubSeq(p, 1, Len(q)) = q

\* the value stored at exactly (q, k)
ExactEntry(d, q, k) ==
    IF q \in DOMAIN d /\ k \in DOMAIN d[q] THEN Some(d[q][k]) ELSE None

\* the paths that are p or an ancestor of p and define k
Defining(d, p, k) ==
    {q \in DOMAIN d : IsAncestorOrSelf(q, p) /\ k \in DOMAIN d[q]}

\* the value at the longest path that is p or an ancestor of p and defines k
MostSpecific(d, p, k) ==
    IF Defining(d, p, k) = {} THEN None
    ELSE LET q == CHOOSE q \in Defining(d, p, k) :
                      \A r \in Defining(d, p, k) : Len(r) <= Len(q)
         IN  Some(d[q][k])

\* C1: get_value_at(p, k) returns the value stored at the longest path that
\* is p or an ancestor of p and defines k, and none exactly when no such
\* path exists; descendants and siblings of p are never consulted.
C1_AncestorOverrideRead ==
    /\ \A p \in StorePaths, k \in StoreKeys :
          /\ get_value_at(data, p, k) = MostSpecific(data, p, k)
          /\ (get_value_at(data, p, k) = None) <=> (Defining(data, p, k) = {})
    /\ last.op \in {"get_value_at", "get_value"} =>
          last.ret = MostSpecific(data, last.path, last.key)

\* a read that fell back to an ancestor while a descendant or sibling of the
\* path holds another value for the key
C1_Witness ==
    /\ last.op = "get_value_at"
    /\ last.ret # None
    /\ ExactEntry(data, last.path, last.key) = None
    /\ \E q \in DOMAIN data :
          /\ ~IsAncestorOrSelf(q, last.path)
          /\ ExactEntry(data, q, last.key) \notin {None, last.ret}
    /\ \E q \in DOMAIN data :
          /\ IsAncestorOrSelf(q, last.path)
          /\ ExactEntry(data, q, last.key) \notin {None, last.ret}

\* C2: get_values_for_cwd at p has exactly the keys defined at p or at an
\* ancestor of p, each with the value get_value_at(p, k) returns; with no
\* entries on the way it is the empty map.
C2_OverrideFold ==
    /\ \A p \in StorePaths :
          LET m == get_values_for_cwd(data, p)
          IN  /\ DOMAIN m = {k \in StoreKeys : Defining(data, p, k) # {}}
              /\ \A k \in DOMAIN m : Some(m[k]) = get_value_at(data, p, k)
    /\ last.op = "get_values_for_cwd" =>
          /\ DOMAIN last.ret = {k \in StoreKeys : Defining(data, last.path, k) # {}}
          /\ \A k \in DOMAIN last.ret :
                Some(last.ret[k]) = MostSpecific(data, last.path, k)

\* a fold over two keys in which an ancestor's value for one key was
\* overridden by the path's own
C2_Witness ==
    /\ last.op = "get_values_for_cwd"
    /\ DOMAIN last.ret = StoreKeys
    /\ \E k \in StoreKeys, q \in DOMAIN data :
          /\ IsAncestorOrSelf(q, last.path)
          /\ q # last.path
          /\ ExactEntry(data, q, k) \notin {None, Some(last.ret[k])}

\* C3: after set_value(k, v) at p, get_value(k) at p returns v, whatever the
\* ancestors and descendants of p define for k.
C3_WriteThenRead ==
    last.op = "set_value" =>
        get_value(data, last.path, last.key) = Some(last.value)

\* a write at a path that replaced another value
C3_Witness ==
    /\ last.op = "set_value"
    /\ last.ret \notin {None, Some(last.value)}
    /\ \E q \in DOMAIN data :
          /\ q # last.path
          /\ IsAncestorOrSelf(q, last.path)
          /\ ExactEntry(data, q, last.key) \notin {None, Some(last.value)}

\* C4: set_value(k, v) at p changes the entry (p, k) and no other, and
\* returns the value stored before at exactly (p, k).
C4_SetExactPathOnly ==
    last.op = "set_value" =>
        /\ ExactEntry(data, last.path, last.key) = Some(last.value)
        /\ \A q \in StorePaths, j \in StoreKeys :
              (q # last.path \/ j # last.key) =>
                  ExactEntry(data, q, j) = ExactEntry(last.pre, q, j)
        /\ DOMAIN data = DOMAIN last.pre \cup {last.path}
        /\ last.ret = ExactEntry(last.pre, last.path, last.key)

\* a write at a path that did not define the key while an ancestor did: the
\* return value is none and the ancestor keeps its entry
C4_Witness ==
    /\ last.op = "set_value"
    /\ last.ret = None
    /\ get_value_at(last.pre, last.path, last.key) \notin {None, Some(last.value)}

\* C5: remove_value(k) at p removes the entry at exactly (p, k) and returns
\* it; when p does not define k the store is unchanged and none is returned;
\* no other entry changes, so get_value(k) at p then finds the nearest
\* ancestor defining k.
C5_RemoveLocality ==
    last.op = "remove_value" =>
        /\ last.ret = ExactEntry(last.pre, last.path, last.key)
        /\ ExactEntry(data, last.path, last.key) = None
        /\ \A q \in StorePaths, j \in StoreKeys :
              (q # last.path \/ j # last.key) =>
                  ExactEntry(data, q, j) = ExactEntry(last.pre, q, j)
        /\ last.ret = None => data = last.pre
        /\ get_value(data, last.path, last.key) =
              IF Len(last.path) > 1
              THEN MostSpecific(last.pre, SubSeq(last.path, 1, Len(last.path) - 1),
                                last.key)
              ELSE None

\* a removal after which the read falls back to an ancestor's value
C5_Witness ==
    /\ last.op = "remove_value"
    /\ last.ret # None
    /\ get_value(data, last.path, last.key) \notin {None, last.ret}

\* a removal at a path that does not define the key while an ancestor does
C5_WitnessAbsent ==
    /\ last.op = "remove_value"
    /\ last.ret = None
    /\ get_value(data, last.path, last.key) # None

(***************************************************************************)
(* Configuration::print_tree (config.rs): the arena of nodes built from    *)
(* the paths of data, and its rendering.  An index of the arena is the     *)
(* code's index plus one.                                                  *)
(***************************************************************************)
\* the line feed that ends a line of text
LF == "LF"

\* the sequences that hold each element of S once: the orders in which a
\* HashMap may iterate its keys
Orders(S) ==
    {f \in [1..Cardinality(S) -> S] : \A x \in S : \E i \in DOMAIN f : f[i] = x}

\* Node::new(idx, value)
Node_new(path, value) ==
    [path |-> path, data |-> value, parent |-> None, children |-> <<>>]

\* ArenaTree::node: the index of the node of the path, pushed when new
node(arena, path, value) ==
    IF \E i \in DOMAIN arena : arena[i].path = path
    THEN [arena |-> arena,
          idx |-> CHOOSE i \in DOMAIN arena : arena[i].path = path]
    ELSE [arena |-> Append(arena, Node_new(path, value)),
          idx |-> Len(arena) + 1]

\* ArenaTree::get_depth
RECURSIVE get_depth(_, _)
get_depth(arena, index) ==
    IF arena[index].parent.some THEN 1 + get_depth(arena, arena[index].parent.v)
    ELSE 0

\* print_tree, lines 125-136: the components of one path after the first
RECURSIVE tree_walk(_, _, _, _, _)
tree_walk(arena, d, p, i, current) ==
    IF i > Len(p) THEN arena
    ELSE LET new_path == join(SubSeq(p, 1, i - 1), <<p[i]>>)
             nx == node(arena, new_path, Lookup(d, new_path))
             linked ==
                 IF nx.arena[nx.idx].parent.some THEN nx.arena
                 ELSE [nx.arena EXCEPT
                          ![nx.idx].parent = Some(current),
                          ![current].children = Append(@, nx.idx)]
         IN  tree_walk(linked, d, p, i + 1, nx.idx)

\* print_tree, lines 112-137: the arena after the paths of data, taken in
\* the given order; a path without components ends the function
RECURSIVE tree_build(_, _, _)
tree_build(arena, d, order) ==
    IF order = <<>> THEN [arena |-> arena, returned |-> FALSE]
    ELSE LET p == Head(order)
         IN  IF Len(p) = 0 THEN [arena |-> arena, returned |-> TRUE]
             ELSE LET base == <<p[1]>>
                      first == node(arena, base, Lookup(d, base))
                  IN  tree_build(tree_walk(first.arena, d, p, 2, first.idx),
                                 d, Tail(order))

\* the entries of a map in the order korder gives its keys
entries(m, korder) == SelectSeq(korder, LAMBDA k : k \in DOMAIN m)

\* print_node, lines 166-175: the lines of the keys of a node
RECURSIVE key_lines(_, _, _, _, _)
key_lines(m, keys, i, prefix, no_children) ==
    IF i > Len(keys) THEN <<>>
    ELSE LET tree_char == IF i = Len(keys) /\ no_children
                          THEN <<"+-">> ELSE <<"|-">>
         IN  prefix \o tree_char \o keys[i] \o <<": ">> \o m[keys[i]] \o <<LF>>
                 \o key_lines(m, keys, i + 1, prefix, no_children)

\* Configuration::print_node
RECURSIVE print_node(_, _, _, _)
RECURSIVE child_lines(_, _, _, _, _)
print_node(arena, index, prefix, korder) ==
    LET nd == arena[index]
        depth == get_depth(arena, index)
        parent == arena[nd.parent.v]
        is_last_child == parent.children[Len(parent.children)] = index
        head == IF depth = 0 THEN path_display(nd.path) \o <<LF>>
                ELSE (IF is_last_child THEN <<"+-">> ELSE <<"|-">>)
                         \o file_name(nd.path).v \o <<LF>>
        pfx == IF depth = 0 THEN prefix
               ELSE prefix \o (IF is_last_child THEN <<"  ">> ELSE <<"| ">>)
        keys == IF nd.data.some
                THEN key_lines(nd.data.v, entries(nd.data.v, korder), 1, pfx,
                               nd.children = <<>>)
                ELSE <<>>
    IN  head \o keys \o child_lines(arena, nd.children, 1, pfx, korder)

\* print_node, lines 176-178: the rendering of each child after the prefix
child_lines(arena, children, i, prefix, korder) ==
    IF i > Len(children) THEN <<>>
    ELSE prefix \o print_node(arena, children[i], prefix, korder)
             \o child_lines(arena, children, i + 1, prefix, korder)

\* a panic of the thread
Panic(msg) == [panic |-> TRUE, msg |-> msg]

\* a value returned
Returned(v) == [panic |-> FALSE, v |-> v]

\* Configuration::print_tree: "" when a path has no components, else the
\* rendering of the node of index 0, which panics when the arena is empty
print_tree(d, order, korder) ==
    LET built == tree_build(<<>>, d, order)
    IN  IF built.returned THEN Returned(<<>>)
        ELSE IF built.arena = <<>> THEN Panic("index out of bounds")
        ELSE Returned(print_node(built.arena, 1, <<>>, korder))

\* Configuration::print_tree, the arena it built recorded with the text
PrintTree(order, korder) ==
    /\ last' = [op |-> "print_tree", order |-> order,
                tree |-> tree_build(<<>>, data, order).arena,
                ret |-> print_tree(data, order, korder)]
    /\ UNCHANGED <<cwd, data, nops, configVars, envVars, input>>

NextTree ==
    \/ \E p \in StorePaths : WithPath(p)
    \/ \E k \in StoreKeys, v \in StoreVals : SetValue(k, v)
    \/ \E k \in StoreKeys : RemoveValue(k)
    \/ \E order \in Orders(DOMAIN data), korder \in Orders(StoreKeys) :
           PrintTree(order, korder)

SpecTree == InitStore /\ [][NextTree]_vars

\* the paths that hold a key, and their ancestors
DataPaths(d) ==
    {q \in UNION {Range(ancestors(p)) : p \in DOMAIN d} :
        \E p \in DOMAIN d : d[p] # EmptyMap /\ IsAncestorOrSelf(q, p)}

\* C22: the tree print_tree builds has one node for each path that holds a
\* key or is an ancestor of one, and no other: a path whose last key was
\* removed, with no path that holds a key below it, has no node.
C22_TreeNodeSet ==
    (last.op = "print_tree" /\ ~last.ret.panic) =>
        /\ {last.tree[i].path : i \in DOMAIN last.tree} = DataPaths(data)
        /\ Cardinality({last.tree[i].path : i \in DOMAIN last.tree})
               = Len(last.tree)

\* what the code does: one node for each path that has a map, empty or not,
\* and for each ancestor of one
C22_CodeKeepsEmptyContexts ==
    last.op = "print_tree" =>
        /\ {last.tree[i].path : i \in DOMAIN last.tree}
               = UNION {Range(ancestors(p)) : p \in DOMAIN data}
        /\ Cardinality({last.tree[i].path : i \in DOMAIN last.tree})
               = Len(last.tree)

\* C26: print_tree returns its text for every store set_value and
\* remove_value can build from the empty one, the store without any path
\* included, whose text is empty or the header alone.
C26_TreeRenderingTotal ==
    last.op = "print_tree" =>
        /\ ~last.ret.panic
        /\ DOMAIN data = {} => last.ret.v \in {<<>>, <<"/", LF>>}

\* what the code does: it panics on the store without any path, and on no
\* other
C26_CodePanicsOnEmpty ==
    last.op = "print_tree" => (last.ret.panic <=> DOMAIN data = {})

(***************************************************************************)
(* KeyRef (lib.rs) and the resolution of a key against the current         *)
(* working context (commands/mod.rs).                                      *)
(***************************************************************************)
Ok(x) == [ok |-> TRUE, v |-> x]

Err(e) == [ok |-> FALSE, err |-> e]

\* str::split(sep): the pieces between the separators; "" gives one empty piece
RECURSIVE split(_, _)
split(s, sep) ==
    LET seps == {i \in 1..Len(s) : s[i] = sep}
    IN  IF seps = {} THEN <<s>>
        ELSE <<SubSeq(s, 1, Min(seps) - 1)>>
                 \o split(SubSeq(s, Min(seps) + 1, Len(s)), sep)

\* the components of the path a string denotes (Path::new(s))
path_of(s) ==
    (IF Len(s) > 0 /\ s[1] = "/" THEN Root ELSE <<>>)
        \o SelectSeq(split(s, "/"), LAMBDA seg : seg # <<>>)

\* PathBuf::from_iter(parts): push each part onto an empty PathBuf
RECURSIVE from_iter(_, _)
from_iter(buf, parts) ==
    IF parts = <<>> THEN buf
    ELSE from_iter(join(buf, path_of(Head(parts))), Tail(parts))

\* str::replace(from, to) for one-character patterns
replace(s, from, to) == [i \in DOMAIN s |-> IF s[i] = from THEN to ELSE s[i]]

\* str::strip_prefix(prefix).unwrap_or(s) for a one-character prefix
strip_prefix(s, prefix) ==
    IF Len(s) > 0 /\ s[1] = prefix THEN Tail(s) ELSE s

\* impl Display for KeyRef: the path with "." for "/", one leading "."
\* stripped, then "." and the key.  A path is held by its components: the
\* trailing separator PathBuf::push("") leaves is not represented.
KeyRef_to_string(r) ==
    strip_prefix(replace(path_display(r.path), "/", "."), ".")
        \o <<".">> \o r.key

\* FromStr for KeyRef without the root inserted before the parts
KeyRef_from_str_relative(s) ==
    LET parts == split(s, ".")
    IN  IF Len(parts) = 0 THEN Err("key cannot be empty")
        ELSE Ok([path |-> from_iter(<<>>, SubSeq(parts, 1, Len(parts) - 1)),
                 key |-> parts[Len(parts)]])

\* impl FromStr for KeyRef
KeyRef_from_str(s) ==
    LET parts == <<RootDir>> \o split(s, ".")
    IN  IF Len(parts) = 0 THEN Err("key cannot be empty")
        ELSE Ok([path |-> from_iter(<<>>, SubSeq(parts, 1, Len(parts) - 1)),
                 key |-> parts[Len(parts)]])

\* commands::parse_key_ref
parse_key_ref(key, path) ==
    LET res == KeyRef_from_str(key)
    IN  IF ~res.ok THEN res
        ELSE Ok([res.v EXCEPT !.path = join(join(Root, path), res.v.path)])

\* commands::get_path: "/" + the base directory's name + the context
get_path(ctx, base) ==
    LET path == IF is_absolute(ctx) THEN strip_root(ctx) ELSE ctx
        name == IF file_name(base).some THEN <<file_name(base).v>> ELSE <<>>
    IN  join(join(Root, name), path)

(***************************************************************************)
(* Parsing: one key string of a command line, resolved against the         *)
(* context of the loaded Config and the base directory.                    *)
(***************************************************************************)
MaxKeyLen == 5

KeyChars == {".", "a", "k"}

KeyStrings == UNION {[1..n -> KeyChars] : n \in 0..MaxKeyLen}

Contexts == {<<>>, <<<<"dev">>>>, <<RootDir, <<"dev">>>>}

BaseDirs == {Root, <<RootDir, <<"home">>, <<"proj">>>>}

InitParse ==
    /\ input \in [key : KeyStrings, base : BaseDirs]
    /\ context \in Contexts
    /\ cwd = Root
    /\ data = EmptyMap
    /\ config = EmptyMap
    /\ vaults = EmptyMap
    /\ default_vault = None
    /\ updated = <<>>
    /\ remote = EmptyMap
    /\ file = None
    /\ pc = "loaded"
    /\ mutated = {}
    /\ last = NoLast
    /\ nops = 0

\* key.parse::<KeyRef>()
FromStr ==
    /\ last' = [op |-> "from_str", key |-> input.key,
                ret |-> KeyRef_from_str(input.key)]
    /\ UNCHANGED <<storeVars, configVars, envVars, input, nops>>

\* get_path(&config, cli.cwd) then parse_key_ref(&key, &path)
ParseKeyRef ==
    LET path == get_path(context, input.base)
    IN  /\ last' = [op |-> "parse_key_ref", key |-> input.key, path |-> path,
                    ret |-> parse_key_ref(input.key, path)]
        /\ UNCHANGED <<storeVars, configVars, envVars, input, nops>>

\* key_ref.to_string() of the parsed key (handle_config, Set and Remove)
Display ==
    LET parsed == KeyRef_from_str(input.key)
    IN  /\ parsed.ok
        /\ last' = [op |-> "to_string", key |-> input.key, parsed |-> parsed.v,
                    ret |-> KeyRef_to_string(parsed.v)]
        /\ UNCHANGED <<storeVars, configVars, envVars, input, nops>>

NextParse == FromStr \/ ParseKeyRef \/ Display

SpecParse == InitParse /\ [][NextParse]_vars

\* the path segments of a dotted key string: its pieces but the last, the
\* empty ones (a leading separator) dropped
PathSegments(s) ==
    LET parts == split(s, ".")
    IN  SelectSeq(SubSeq(parts, 1, Len(parts) - 1), LAMBDA seg : seg # <<>>)

\* C8: for a key string s with a non-empty key, parse_key_ref(s, c) has
\* path = c followed by the path segments of s; for a non-root c a bare key
\* resolves to c, not to "/".
C8_ContextRelativeKey ==
    (last.op = "parse_key_ref" /\ last.ret.ok /\ last.ret.v.key # <<>>) =>
        last.ret.v.path = last.path \o PathSegments(last.key)

\* what the code does: the context is dropped, the path is rooted at "/"
C8_CodeDropsContext ==
    (last.op = "parse_key_ref" /\ last.ret.ok) =>
        last.ret.v.path = Root \o PathSegments(last.key)

\* the pieces of a dotted string, one leading separator ignored
Segments(s) ==
    LET parts == split(s, ".")
    IN  IF Len(parts) > 1 /\ Head(parts) = <<>> THEN Tail(parts) ELSE parts

\* a well-formed dotted string: one or more non-empty segments, optionally
\* after one leading "."
WellFormed(s) == \A i \in DOMAIN Segments(s) : Segments(s)[i] # <<>>

\* C15: parsing the empty string, or a string whose last segment is empty,
\* fails with "key cannot be empty"; parsing never gives an empty key.
C15_ParseFailure ==
    last.op = "from_str" =>
        /\ split(last.key, ".")[Len(split(last.key, "."))] = <<>> =>
               /\ ~last.ret.ok
               /\ last.ret.err = "key cannot be empty"
        /\ last.ret.ok => last.ret.v.key # <<>>

\* what the code does: parsing never fails, the last piece is the key even
\* when it is empty
C15_CodeNeverFails ==
    last.op = "from_str" =>
        /\ last.ret.ok
        /\ last.ret.v.key = split(last.key, ".")[Len(split(last.key, "."))]

\* C16: for a well-formed dotted string s, parse(s).to_string() is s without
\* its leading separator, a bare key included, and so parses to the same
\* KeyRef.
C16_RoundTripParse ==
    (last.op = "to_string" /\ WellFormed(last.key)) =>
        /\ last.ret = strip_prefix(last.key, ".")
        /\ KeyRef_from_str(last.ret) = Ok(last.parsed)

\* what the code does: a key at the root is rendered with a leading ".",
\* any other well-formed string without; the rendering parses back to the
\* same KeyRef
C16_CodeRootKeepsDot ==
    (last.op = "to_string" /\ WellFormed(last.key)) =>
        /\ last.ret = IF last.parsed.path = Root
                      THEN <<".">> \o last.parsed.key
                      ELSE strip_prefix(last.key, ".")
        /\ KeyRef_from_str(last.ret) = Ok(last.parsed)

\* C17: for a dotted string whose last segment is not empty, the key is the
\* last segment and the path is "/" followed by the segments before it, in
\* order; a leading separator changes nothing.
C17_KeyRefGrammar ==
    (last.op = "from_str"
        /\ split(last.key, ".")[Len(split(last.key, "."))] # <<>>) =>
        /\ last.ret.ok
        /\ last.ret.v.key = split(last.key, ".")[Len(split(last.key, "."))]
        /\ last.ret.v.path = Root \o PathSegments(last.key)
        /\ KeyRef_from_str(<<".">> \o last.key) = last.ret

\* a string of two path segments and a key
C17_Witness ==
    /\ last.op = "from_str"
    /\ last.ret.ok
    /\ Len(last.ret.v.path) = 3
    /\ last.ret.v.key # <<>>
    /\ WellFormed(last.key)

\* a string with a leading separator
C17_WitnessLeading ==
    /\ last.op = "from_str"
    /\ Len(last.key) > 1
    /\ last.key[1] = "."
    /\ last.ret.v.key # <<>>
    /\ Len(last.ret.v.path) = 2

(***************************************************************************)
(* ConfigValue and Config (lib.rs).  Config reaches its stores through     *)
(* Configuration::get / set / remove, which take a KeyRef.                 *)
(***************************************************************************)
Value(v) == [kind |-> "Value", v |-> v]

Secret(name, key_ref) == [kind |-> "Secret", name |-> name, key_ref |-> key_ref]

\* Configuration::get(&KeyRef): the ancestor-override lookup of 4.1
Configuration_get(d, key_ref) == get_value_at(d, key_ref.path, key_ref.key)

\* Configuration::set(KeyRef, T): the write at the exact path of 4.1
Configuration_set(d, key_ref, value) ==
    set_value(d, key_ref.path, key_ref.key, value)

Configuration_set_ret(d, key_ref) == set_value_ret(d, key_ref.path, key_ref.key)

\* Configuration::remove(&KeyRef): the exact-context removal of 4.1
Configuration_remove(d, key_ref) == remove_value(d, key_ref.path, key_ref.key)

Configuration_remove_ret(d, key_ref) ==
    remove_value_ret(d, key_ref.path, key_ref.key)

\* ConfigError
VaultNotFound(name) == [kind |-> "VaultNotFound", name |-> name]

SecretNotFound(name, key_ref) ==
    [kind |-> "SecretNotFound", name |-> name, key_ref |-> key_ref]

VaultNotSpecified == [kind |-> "VaultNotSpecified"]

VaultAlreadyExists == [kind |-> "VaultAlreadyExists"]

resolve_secret_any(vts, name, key_ref) ==
    LET having == {n \in DOMAIN vts :
                      Configuration_get(vts[n].secret_value, key_ref).some}
    IN  IF name \in having THEN Configuration_get(vts[name].secret_value, key_ref)
        ELSE IF having = {} THEN None
        ELSE Configuration_get(vts[CHOOSE n \in having : TRUE].secret_value, key_ref)

\* Config::resolve_secret
resolve_secret(vts, name, key_ref) ==
    IF name \notin DOMAIN vts THEN None
    ELSE Configuration_get(vts[name].secret_value, key_ref)

\* Config::get
Config_get(cfg, vts, key_ref) ==
    LET value == Configuration_get(cfg, key_ref)
    IN  IF value.some
        THEN IF value.v.kind = "Secret"
             THEN resolve_secret(vts, value.v.name, value.v.key_ref)
             ELSE Some(value.v.v)
        ELSE None

\* Configuration::get_all(path): the fold from the root down to path
Configuration_get_all(d, path) == get_values_for_cwd(d, path)

\* impl Display for ConfigValue: a secret is shown by its vault and the path
\* of its key, a value by its string
ConfigValue_to_string(v) ==
    IF v.kind = "Secret"
    THEN <<"secret [">> \o v.name \o <<"::">>
             \o path_display(join(v.key_ref.path, path_of(v.key_ref.key)))
             \o <<"]">>
    ELSE v.v

\* Config::get_all: every key of the fold with its value resolved, a secret
\* that does not resolve with what Display shows for it
Config_get_all(cfg, vts, path) ==
    LET all == Configuration_get_all(cfg, path)
    IN  [k \in DOMAIN all |->
            IF all[k].kind = "Secret"
            THEN LET res == resolve_secret(vts, all[k].name, all[k].key_ref)
                 IN  IF res.some THEN res.v ELSE ConfigValue_to_string(all[k])
            ELSE all[k].v]

\* Config::get_secret
get_secret(vts, name, key_ref) ==
    IF name \notin DOMAIN vts THEN Err(VaultNotFound(name))
    ELSE Ok(Configuration_get(vts[name].secret_value, key_ref))

Config_set_unchecked(cfg, vts, key_ref, value) ==
    [ret |-> Ok(Configuration_set_ret(cfg, key_ref)),
     config |-> Configuration_set(cfg, key_ref, value)]

\* Config::set: the result and the config store after the call
Config_set(cfg, vts, key_ref, value) ==
    LET found == get_secret(vts, value.name, value.key_ref)
    IN  IF value.kind = "Secret" /\ ~found.ok
        THEN [ret |-> found, config |-> cfg]
        ELSE IF value.kind = "Secret" /\ ~found.v.some
        THEN [ret |-> Err(SecretNotFound(value.name, value.key_ref)),
              config |-> cfg]
        ELSE [ret |-> Ok(Configuration_set_ret(cfg, key_ref)),
              config |-> Configuration_set(cfg, key_ref, value)]

get_vault_name_explicit_first(dflt, name) ==
    IF name.some THEN Ok(name.v)
    ELSE IF dflt.some THEN Ok(dflt.v)
    ELSE Err(VaultNotSpecified)

\* Config::get_vault_name: default_vault.or(name).ok_or(VaultNotSpecified)
get_vault_name(dflt, name) ==
    IF dflt.some THEN Ok(dflt.v)
    ELSE IF name.some THEN Ok(name.v)
    ELSE Err(VaultNotSpecified)

(***************************************************************************)
(* Serialization (serde_json).  A text is the empty string or a JSON       *)
(* document; a path is written as the string it displays as and read back  *)
(* through Path::new.                                                      *)
(***************************************************************************)
\* the empty string
EmptyText == [text |-> "empty"]

\* a JSON document
Json(tree) == [text |-> "json", data |-> tree]

\* Serialize / Deserialize for String
ser_string(v) == v

de_string(v) == v

\* Serialize for KeyRef (derived): an object of the path's string and the key
ser_key_ref(r) == [path |-> path_display(r.path), key |-> r.key]

\* Deserialize for KeyRef (derived)
de_key_ref(o) == [path |-> path_of(o.path), key |-> o.key]

\* Serialize for ConfigValue (untagged): a secret is the array of its name
\* and key reference, a value is its string
ser_config_value(v) ==
    IF v.kind = "Secret"
    THEN [json |-> "array", name |-> v.name, key_ref |-> ser_key_ref(v.key_ref)]
    ELSE [json |-> "string", s |-> v.v]

\* Deserialize for ConfigValue (untagged): the first variant that fits
de_config_value(j) ==
    IF j.json = "array" THEN Secret(j.name, de_key_ref(j.key_ref))
    ELSE Value(j.s)

\* Serialize for T
ser_value(T, v) == IF T = "ConfigValue" THEN ser_config_value(v) ELSE ser_string(v)

\* Deserialize for T
de_value(T, j) == IF T = "ConfigValue" THEN de_config_value(j) ELSE de_string(j)

\* Serialize for HashMap<PathBuf, HashMap<String, T>>, T being "String" or
\* "ConfigValue": an object keyed by the paths' strings
ser_data(d, T) ==
    [s \in {path_display(q) : q \in DOMAIN d} |->
        LET q == CHOOSE q \in DOMAIN d : path_display(q) = s
        IN  [k \in DOMAIN d[q] |-> ser_value(T, d[q][k])]]

\* Deserialize for HashMap<PathBuf, HashMap<String, T>>
de_data(m, T) ==
    [q \in {path_of(s) : s \in DOMAIN m} |->
        LET s == CHOOSE s \in DOMAIN m : path_of(s) = q
        IN  [k \in DOMAIN m[s] |-> de_value(T, m[s][k])]]

(***************************************************************************)
(* Vaults (secrets/aws.rs) and the backing secret store.  A remote secret  *)
(* is [version, payload]; its version token counts the writes to it.       *)
(***************************************************************************)
\* serde_json::to_string_pretty(&self.secret_value)
to_string_pretty(d) == Json(ser_data(d, "String"))

\* serde_json::from_str: only a JSON document decodes, the empty string is
\* an error (EOF while parsing a value)
from_str(t) ==
    IF t.text = "json" THEN Ok(de_data(t.data, "String"))
    ELSE Err([kind |-> "Encoding"])

\* AwsSecretVault::from_secret_arn
from_secret_arn(rem, id) ==
    IF rem[id].payload.some THEN from_str(rem[id].payload.v) ELSE Ok(EmptyMap)

\* AwsSecretVault::from_info: the descriptor's info, the fetched payload
from_info(rem, info) ==
    LET value == from_secret_arn(rem, info.id)
    IN  IF ~value.ok THEN value
        ELSE Ok([secret_info |-> info, secret_value |-> value.v])

\* AwsSecretVault::update_secret: the backing store after the write
update_secret(rem, id, text) ==
    [rem EXCEPT ![id] = [version |-> @.version + 1, payload |-> Some(text)]]

\* AwsSecretVault::save_secret: the vault after the write
save_secret(rem, vault) ==
    [vault EXCEPT !.secret_info.version = rem[vault.secret_info.id].version + 1]

\* the loop of Config::save run over every vault of the registry
save_updated_all(vts, rem, upd, down) ==
    [vaults |-> [n \in DOMAIN vts |-> save_secret(rem, vts[n])],
     remote |-> [id \in DOMAIN rem |->
                    IF \E n \in DOMAIN vts : vts[n].secret_info.id = id
                    THEN [version |-> rem[id].version + 1,
                          payload |-> Some(to_string_pretty(
                              vts[CHOOSE n \in DOMAIN vts :
                                      vts[n].secret_info.id = id].secret_value))]
                    ELSE rem[id]],
     panic |-> FALSE, failed |-> FALSE]

\* Config::save, lines 133-139: each updated vault saved, in order; a name
\* that is not in the registry panics (expect); the write of a secret in
\* down fails, and the error ends the loop (?)
RECURSIVE save_updated(_, _, _, _)
save_updated(vts, rem, upd, down) ==
    IF upd = <<>>
    THEN [vaults |-> vts, remote |-> rem, panic |-> FALSE, failed |-> FALSE]
    ELSE IF Head(upd) \notin DOMAIN vts
    THEN [vaults |-> vts, remote |-> rem, panic |-> TRUE, failed |-> FALSE]
    ELSE IF vts[Head(upd)].secret_info.id \in down
    THEN [vaults |-> vts, remote |-> rem, panic |-> FALSE, failed |-> TRUE]
    ELSE LET name == Head(upd)
             vault == vts[name]
         IN  save_updated(
                 [vts EXCEPT ![name] = save_secret(rem, vault)],
                 update_secret(rem, vault.secret_info.id,
                               to_string_pretty(vault.secret_value)),
                 Tail(upd), down)

\* ConfigFileData built without the default vault
ConfigFileData_no_default(cfg, vts, dflt, ctx) ==
    [config |-> cfg, context |-> ctx, default_secret |-> None,
     secrets |-> [n \in DOMAIN vts |-> vts[n].secret_info]]

\* ConfigFileData as Config::save builds it
ConfigFileData(cfg, vts, dflt, ctx) ==
    [config |-> cfg, context |-> ctx, default_secret |-> dflt,
     secrets |-> [n \in DOMAIN vts |-> vts[n].secret_info]]

\* ConfigFileData::default()
ConfigFileData_default ==
    [config |-> EmptyMap, context |-> <<>>, default_secret |-> None,
     secrets |-> EmptyMap]

\* Config::save with the descriptor written though a vault's save failed
write_descriptor_always(saved, old, text) == Some(text)

\* Config::save, lines 138-153: the descriptor file after save; the file is
\* created and written only when the loop returned no error
write_descriptor(saved, old, text) ==
    IF saved.panic \/ saved.failed THEN old ELSE Some(text)

\* serde_json::to_writer_pretty(file, &data) for ConfigFileData fd
to_writer_pretty(fd) ==
    Json([config |-> ser_data(fd.config, "ConfigValue"),
          context |-> path_display(fd.context),
          default_secret |-> fd.default_secret,
          secrets |-> fd.secrets])

\* serde_json::from_reader for ConfigFileData
from_reader(t) ==
    IF t.text # "json" THEN Err([kind |-> "Encoding"])
    ELSE Ok([config |-> de_data(t.data.config, "ConfigValue"),
             context |-> path_of(t.data.context),
             default_secret |-> t.data.default_secret,
             secrets |-> t.data.secrets])

(***************************************************************************)
(* The inputs of the Config aggregate.                                     *)
(***************************************************************************)
MaxConfigOps == 3

MaxSaveOps == 3

VMain == <<"main">>

VAux == <<"aux">>

VaultNames == {VMain, VAux}

PDev == <<RootDir, <<"dev">>>>

ConfigRefs == {[path |-> Root, key |-> <<"db">>], [path |-> PDev, key |-> <<"db">>]}

RPass == [path |-> Root, key |-> <<"pass">>]

RDevPass == [path |-> PDev, key |-> <<"pass">>]

SecretRefs == {RPass, RDevPass}

ConfigValues ==
    {Value(<<"lit">>)} \cup {Secret(n, r) : n \in VaultNames, r \in SecretRefs}

SecretId(name) == <<"arn:">> \o name

InfoOf(name, version) == [id |-> SecretId(name), name |-> name, version |-> version]

\* the backing store before the first invocation: the secret of "main"
\* holds dev.pass, that of "aux" holds pass at the root
InitialRemote ==
    [id \in {SecretId(n) : n \in VaultNames} |->
        [version |-> 0,
         payload |-> Some(to_string_pretty(
             IF id = SecretId(VMain)
             THEN [q \in {PDev} |-> [k \in {<<"pass">>} |-> <<"p">>]]
             ELSE [q \in {Root} |-> [k \in {<<"pass">>} |-> <<"q">>]]))]]

\* descriptor files: both vaults registered; or "main" only, with a config
\* value that refers to a vault the descriptor does not list
InitialDescriptors ==
    {[config |-> EmptyMap, context |-> <<>>, default_secret |-> None,
      secrets |-> [n \in VaultNames |-> InfoOf(n, 0)]],
     [config |-> [q \in {Root} |-> [k \in {<<"db">>} |-> Secret(VAux, RPass)]],
      context |-> <<>>, default_secret |-> None,
      secrets |-> [n \in {VMain} |-> InfoOf(n, 0)]]}

\* Config::load: the descriptor read (the default when the file is absent),
\* every vault it lists loaded from its info; any failure fails the load
Config_load(f, rem) ==
    LET res == IF ~f.some THEN Ok(ConfigFileData_default) ELSE from_reader(f.v)
    IN  IF ~res.ok THEN res
        ELSE LET loaded == [n \in DOMAIN res.v.secrets |->
                               from_info(rem, res.v.secrets[n])]
             IN  IF \E n \in DOMAIN loaded : ~loaded[n].ok
                 THEN Err([kind |-> "VaultError"])
                 ELSE Ok([config |-> res.v.config,
                          context |-> res.v.context,
                          default_vault |-> res.v.default_secret,
                          vaults |-> [n \in DOMAIN loaded |-> loaded[n].v],
                          updated |-> <<>>])

\* the fields of the Config
PreConfig ==
    [config |-> config, vaults |-> vaults, default_vault |-> default_vault,
     context |-> context, updated |-> updated]

\* the descriptor files of the first invocation: none, or one of
\* InitialDescriptors as save writes it
InitialFiles == {None} \cup {Some(to_writer_pretty(desc)) : desc \in InitialDescriptors}

InitConfig ==
    /\ remote = InitialRemote
    /\ file \in InitialFiles
    /\ Config_load(file, remote).ok
    /\ config = Config_load(file, remote).v.config
    /\ vaults = Config_load(file, remote).v.vaults
    /\ default_vault = Config_load(file, remote).v.default_vault
    /\ context = Config_load(file, remote).v.context
    /\ updated = Config_load(file, remote).v.updated
    /\ pc = "loaded"
    /\ mutated = {}
    /\ input = NoInput
    /\ last = [op |-> "load", saved |-> FALSE, pre |-> PreConfig]
    /\ nops = 0
    /\ cwd = Root
    /\ data = EmptyMap

\* Config::set
ConfigSet(key_ref, value, bound) ==
    LET res == Config_set(config, vaults, key_ref, value)
    IN  /\ pc = "loaded"
        /\ nops < bound
        /\ config' = res.config
        /\ last' = [op |-> "set", key_ref |-> key_ref, value |-> value,
                    ret |-> res.ret, pre |-> PreConfig]
        /\ nops' = nops + 1
        /\ UNCHANGED <<vaults, default_vault, context, updated>>
        /\ UNCHANGED <<storeVars, envVars, input>>

\* Config::get
ConfigGet(key_ref) ==
    /\ pc = "loaded"
    /\ last' = [op |-> "get", key_ref |-> key_ref,
                ret |-> Config_get(config, vaults, key_ref)]
    /\ UNCHANGED <<storeVars, configVars, envVars, input, nops>>

\* Config::remove
ConfigRemove(key_ref, bound) ==
    /\ pc = "loaded"
    /\ nops < bound
    /\ config' = Configuration_remove(config, key_ref)
    /\ last' = [op |-> "remove", key_ref |-> key_ref,
                ret |-> Configuration_remove_ret(config, key_ref),
                pre |-> PreConfig]
    /\ nops' = nops + 1
    /\ UNCHANGED <<vaults, default_vault, context, updated>>
    /\ UNCHANGED <<storeVars, envVars, input>>

\* Config::set_secret
SetSecret(name, key_ref, value, bound) ==
    /\ pc = "loaded"
    /\ nops < bound
    /\ nops' = nops + 1
    /\ IF name \notin DOMAIN vaults
       THEN /\ last' = [op |-> "set_secret", name |-> name, key_ref |-> key_ref,
                        ret |-> Err(VaultNotFound(name)), pre |-> PreConfig]
            /\ UNCHANGED <<vaults, updated, mutated>>
       ELSE /\ vaults' = [vaults EXCEPT ![name].secret_value =
                             Configuration_set(@, key_ref, value)]
            /\ updated' = updated
            /\ mutated' = IF vaults' # vaults THEN mutated \cup {name} ELSE mutated
            /\ last' = [op |-> "set_secret", name |-> name, key_ref |-> key_ref,
                        ret |-> Ok(Configuration_set_ret(vaults[name].secret_value,
                                                         key_ref)),
                        pre |-> PreConfig]
    /\ UNCHANGED <<config, default_vault, context>>
    /\ UNCHANGED <<storeVars, remote, file, pc, input>>

\* Config::remove_secret
RemoveSecret(name, key_ref, bound) ==
    /\ pc = "loaded"
    /\ nops < bound
    /\ nops' = nops + 1
    /\ IF name \notin DOMAIN vaults
       THEN /\ last' = [op |-> "remove_secret", name |-> name, key_ref |-> key_ref,
                        ret |-> Err(VaultNotFound(name)), pre |-> PreConfig]
            /\ UNCHANGED <<vaults, updated, mutated>>
       ELSE /\ vaults' = [vaults EXCEPT ![name].secret_value =
                             Configuration_remove(@, key_ref)]
            /\ updated' = updated
            /\ mutated' = IF vaults' # vaults THEN mutated \cup {name} ELSE mutated
            /\ last' = [op |-> "remove_secret", name |-> name, key_ref |-> key_ref,
                        ret |-> Ok(Configuration_remove_ret(
                                       vaults[name].secret_value, key_ref)),
                        pre |-> PreConfig]
    /\ UNCHANGED <<config, default_vault, context>>
    /\ UNCHANGED <<storeVars, remote, file, pc, input>>

\* Config::get_all (export_config, print_config)
ConfigGetAll(path) ==
    /\ pc = "loaded"
    /\ last' = [op |-> "get_all", path |-> path,
                ret |-> Config_get_all(config, vaults, path)]
    /\ UNCHANGED <<storeVars, configVars, envVars, input, nops>>

\* Config::get_vault_name
GetVaultName(name) ==
    /\ pc = "loaded"
    /\ last' = [op |-> "get_vault_name", name |-> name,
                ret |-> get_vault_name(default_vault, name)]
    /\ UNCHANGED <<storeVars, configVars, envVars, input, nops>>

\* Config::set_default_vault
SetDefaultVault(name, bound) ==
    /\ pc = "loaded"
    /\ nops < bound
    /\ nops' = nops + 1
    /\ default_vault' = Some(name)
    /\ last' = [op |-> "set_default_vault", name |-> name, pre |-> PreConfig]
    /\ UNCHANGED <<config, vaults, context, updated>>
    /\ UNCHANGED <<storeVars, envVars, input>>

NextConfig ==
    \/ \E r \in ConfigRefs, v \in ConfigValues : ConfigSet(r, v, MaxConfigOps)
    \/ \E r \in ConfigRefs : ConfigGet(r)
    \/ \E q \in {Root, PDev} : ConfigGetAll(q)
    \/ \E r \in ConfigRefs : ConfigRemove(r, MaxConfigOps)
    \/ \E n \in VaultNames, r \in SecretRefs :
           SetSecret(n, r, <<"new">>, MaxConfigOps)
    \/ \E n \in VaultNames, r \in SecretRefs : RemoveSecret(n, r, MaxConfigOps)
    \/ \E n \in {None} \cup {Some(v) : v \in VaultNames} : GetVaultName(n)
    \/ \E n \in VaultNames : SetDefaultVault(n, MaxConfigOps)

SpecConfig == InitConfig /\ [][NextConfig]_vars

(***************************************************************************)
(* Persistence: the invocations of the program, each loading the           *)
(* descriptor, working on the Config and saving it or exiting without.     *)
(***************************************************************************)
\* Config::set_current_context
SetCurrentContext(ctx, bound) ==
    /\ pc = "loaded"
    /\ nops < bound
    /\ nops' = nops + 1
    /\ context' = ctx
    /\ last' = [op |-> "set_current_context", context |-> ctx, pre |-> PreConfig]
    /\ UNCHANGED <<config, vaults, default_vault, updated>>
    /\ UNCHANGED <<storeVars, envVars, input>>

\* Config::add_vault with the name pushed to updated before the check
add_vault_push_always(vts, upd, rem, name, kind) ==
    IF name \in DOMAIN vts
    THEN [ret |-> Err(VaultAlreadyExists), vaults |-> vts,
          updated |-> Append(upd, name)]
    ELSE LET vault == from_info(rem, kind)
         IN  IF ~vault.ok
             THEN [ret |-> Err([kind |-> "VaultError"]),
                   vaults |-> vts, updated |-> Append(upd, name)]
             ELSE [ret |-> Ok(<<>>), vaults |-> Insert(vts, name, vault.v),
                   updated |-> Append(upd, name)]

\* Config::add_vault without the check of the name
add_vault_overwrite(vts, upd, rem, name, kind) ==
    LET vault == from_info(rem, kind)
    IN  IF ~vault.ok
        THEN [ret |-> Err([kind |-> "VaultError"]), vaults |-> vts, updated |-> upd]
        ELSE [ret |-> Ok(<<>>), vaults |-> Insert(vts, name, vault.v),
              updated |-> Append(upd, name)]

\* Config::add_vault: the result, the registry and the updated list
add_vault(vts, upd, rem, name, kind) ==
    IF name \in DOMAIN vts
    THEN [ret |-> Err(VaultAlreadyExists), vaults |-> vts, updated |-> upd]
    ELSE LET vault == from_info(rem, kind)
         IN  IF ~vault.ok
             THEN [ret |-> Err([kind |-> "VaultError"]),
                   vaults |-> vts, updated |-> upd]
             ELSE [ret |-> Ok(<<>>), vaults |-> Insert(vts, name, vault.v),
                   updated |-> Append(upd, name)]

\* Config::add_vault, the VaultKind being the descriptor of the name's secret
AddVault(name, bound) ==
    LET kind == InfoOf(name, remote[SecretId(name)].version)
        res == add_vault(vaults, updated, remote, name, kind)
    IN  /\ pc = "loaded"
        /\ nops < bound
        /\ nops' = nops + 1
        /\ vaults' = res.vaults
        /\ updated' = res.updated
        /\ last' = [op |-> "add_vault", name |-> name, ret |-> res.ret,
                    pre |-> PreConfig]
        /\ UNCHANGED <<config, default_vault, context>>
        /\ UNCHANGED <<storeVars, envVars, input>>

\* the secrets whose write may fail during one save: none, or one
Downs == {{}} \cup {{SecretId(n)} : n \in VaultNames}

\* Config::save
Save(down, bound) ==
    LET saved == save_updated(vaults, remote, updated, down)
        fd == ConfigFileData(config, saved.vaults, default_vault, context)
    IN  /\ pc = "loaded"
        /\ nops < bound
        /\ nops' = nops + 1
        /\ vaults' = saved.vaults
        /\ remote' = saved.remote
        /\ pc' = IF saved.panic THEN "panicked"
                 ELSE IF saved.failed THEN "failed" ELSE "saved"
        /\ file' = write_descriptor(saved, file, to_writer_pretty(fd))
        /\ last' = [op |-> "save", pre |-> PreConfig, file |-> file,
                    remote |-> remote]
        /\ UNCHANGED <<config, default_vault, context, updated>>
        /\ UNCHANGED <<storeVars, mutated, input>>

\* the process exits without Config::save
Discard ==
    /\ pc = "loaded"
    /\ pc' = "discarded"
    /\ last' = [op |-> "exit"]
    /\ UNCHANGED <<storeVars, configVars, remote, file, mutated, input, nops>>

\* Config::load in the next invocation
Load ==
    LET res == Config_load(file, remote)
    IN  /\ pc \in {"saved", "failed", "discarded"}
        /\ IF res.ok
           THEN /\ config' = res.v.config
                /\ vaults' = res.v.vaults
                /\ default_vault' = res.v.default_vault
                /\ context' = res.v.context
                /\ updated' = res.v.updated
                /\ pc' = "loaded"
           ELSE /\ pc' = "load_failed"
                /\ UNCHANGED configVars
        /\ mutated' = {}
        /\ last' = [op |-> "load", saved |-> (pc = "saved"), pre |-> PreConfig]
        /\ UNCHANGED <<storeVars, remote, file, input, nops>>

NextSave ==
    \/ \E r \in ConfigRefs, v \in ConfigValues : ConfigSet(r, v, MaxSaveOps)
    \/ \E r \in ConfigRefs : ConfigRemove(r, MaxSaveOps)
    \/ \E n \in VaultNames, r \in SecretRefs :
           SetSecret(n, r, <<"new">>, MaxSaveOps)
    \/ \E n \in VaultNames, r \in SecretRefs : RemoveSecret(n, r, MaxSaveOps)
    \/ \E n \in VaultNames : AddVault(n, MaxSaveOps)
    \/ \E n \in VaultNames : SetDefaultVault(n, MaxSaveOps)
    \/ \E c \in Contexts : SetCurrentContext(c, MaxSaveOps)
    \/ \E down \in Downs : Save(down, MaxSaveOps)
    \/ Discard
    \/ Load

SpecSave == InitConfig /\ [][NextSave]_vars

(***************************************************************************)
(* Vaults on their own: loaded from an info whatever the backing secret    *)
(* holds, changed, and saved one at a time.                                *)
(***************************************************************************)
MaxVaultOps == 3

\* what a backing secret may hold: no secret string, the empty string, or
\* a store as save_secret writes it
Payloads ==
    {None, Some(EmptyText),
     Some(to_string_pretty([q \in {PDev} |-> [k \in {<<"pass">>} |-> <<"p">>]]))}

InitialRemotes ==
    [{SecretId(n) : n \in VaultNames} -> [version : {0}, payload : Payloads]]

InitVault ==
    /\ remote \in InitialRemotes
    /\ config = EmptyMap
    /\ vaults = EmptyMap
    /\ default_vault = None
    /\ context = <<>>
    /\ updated = <<>>
    /\ file = None
    /\ pc = "loaded"
    /\ mutated = {}
    /\ input = NoInput
    /\ last = NoLast
    /\ nops = 0
    /\ cwd = Root
    /\ data = EmptyMap

\* VaultKind::into_vault: AwsSecretVault::from_info of the name's secret
IntoVault(name) ==
    LET info == InfoOf(name, remote[SecretId(name)].version)
        res == from_info(remote, info)
    IN  /\ last' = [op |-> "from_info", name |-> name, ret |-> res,
                    payload |-> remote[SecretId(name)].payload]
        /\ vaults' = IF res.ok THEN Insert(vaults, name, res.v) ELSE vaults
        /\ mutated' = IF res.ok THEN mutated \ {name} ELSE mutated
        /\ UNCHANGED <<config, default_vault, context, updated>>
        /\ UNCHANGED <<storeVars, remote, file, pc, input, nops>>

\* VaultTrait::save for AwsSecretVault: save_secret
VaultSave(name, bound) ==
    /\ name \in DOMAIN vaults
    /\ nops < bound
    /\ nops' = nops + 1
    /\ vaults' = [vaults EXCEPT ![name] = save_secret(remote, @)]
    /\ remote' = update_secret(remote, vaults[name].secret_info.id,
                               to_string_pretty(vaults[name].secret_value))
    /\ last' = [op |-> "vault_save", name |-> name, pre |-> PreConfig,
                remote |-> remote, pending |-> (name \in mutated)]
    /\ mutated' = mutated \ {name}
    /\ UNCHANGED <<config, default_vault, context, updated>>
    /\ UNCHANGED <<storeVars, file, pc, input>>

NextVault ==
    \/ \E n \in VaultNames : IntoVault(n)
    \/ \E n \in VaultNames, r \in SecretRefs :
           SetSecret(n, r, <<"new">>, MaxVaultOps)
    \/ \E n \in VaultNames, r \in SecretRefs : RemoveSecret(n, r, MaxVaultOps)
    \/ \E n \in VaultNames : VaultSave(n, MaxVaultOps)

SpecVault == InitVault /\ [][NextVault]_vars

\* C18: a vault's save with no change of its store since it was loaded or
\* last saved writes nothing to the backing secret and leaves the vault's
\* version as it was.
C18_PersistIdempotent ==
    (last.op = "vault_save" /\ ~last.pending) =>
        /\ remote = last.remote
        /\ vaults[last.name].secret_info.version
               = last.pre.vaults[last.name].secret_info.version

\* what the code does: every save writes the backing secret and takes the
\* version of the write
C18_CodeAlwaysWrites ==
    last.op = "vault_save" =>
        LET id == vaults[last.name].secret_info.id
        IN  /\ remote[id].version = last.remote[id].version + 1
            /\ vaults[last.name].secret_info.version = remote[id].version

\* C20: loading a vault whose backing secret has no secret string, or the
\* empty string, succeeds with an empty store.
C20_EmptyPayloadLoads ==
    (last.op = "from_info" /\ last.payload \in {None, Some(EmptyText)}) =>
        /\ last.ret.ok
        /\ last.ret.v.secret_value = EmptyMap

\* what the code does: no secret string loads as an empty store, the empty
\* string is an encoding error
C20_CodeEmptyStringFails ==
    last.op = "from_info" =>
        /\ last.payload = None =>
               last.ret.ok /\ last.ret.v.secret_value = EmptyMap
        /\ last.payload = Some(EmptyText) => ~last.ret.ok

\* the vault infos of a descriptor file, as load reads them
LoadedSecrets(f) == IF f.some THEN from_reader(f.v).v.secrets ELSE EmptyMap

\* C11: save() writes to the backing secret of no vault that was loaded from
\* the descriptor and neither mutated nor added in this invocation, and the
\* descriptor it writes keeps the version token that was loaded for it.
C11_UnmodifiedVaultsSkipped ==
    (last.op = "save" /\ pc \in {"saved", "failed"}) =>
        \A n \in DOMAIN LoadedSecrets(last.file) :
            (n \notin Range(last.pre.updated) /\ n \notin mutated) =>
                /\ remote[last.pre.vaults[n].secret_info.id]
                       = last.remote[last.pre.vaults[n].secret_info.id]
                /\ pc = "saved" =>
                       /\ n \in DOMAIN LoadedSecrets(file)
                       /\ LoadedSecrets(file)[n].version
                              = LoadedSecrets(last.file)[n].version

\* a save that persisted an added vault and skipped a loaded, untouched one
C11_Witness ==
    /\ last.op = "save"
    /\ pc = "saved"
    /\ Range(last.pre.updated) # {}
    /\ \E n \in DOMAIN LoadedSecrets(last.file) :
           n \notin Range(last.pre.updated) /\ n \notin mutated

\* C12: save() writes the descriptor only after every dirty vault has been
\* persisted; when the write of a dirty vault fails, save() fails and the
\* descriptor file keeps its previous content.
C12_SaveOrdering ==
    last.op = "save" =>
        /\ pc = "saved" =>
               /\ \A n \in Range(last.pre.updated) :
                      LET id == last.pre.vaults[n].secret_info.id
                      IN  /\ remote[id].payload
                                 = Some(to_string_pretty(last.pre.vaults[n].secret_value))
                          /\ remote[id].version = last.remote[id].version + 1
               /\ file = Some(to_writer_pretty(
                      ConfigFileData(config, vaults, default_vault, context)))
        /\ pc = "failed" => file = last.file
        /\ file # last.file => pc = "saved"

\* a save that persisted one dirty vault, failed on the next and left the
\* descriptor as it was
C12_Witness ==
    /\ last.op = "save"
    /\ pc = "failed"
    /\ \E n \in Range(last.pre.updated) :
           remote[last.pre.vaults[n].secret_info.id]
               # last.remote[last.pre.vaults[n].secret_info.id]

\* a save of two dirty vaults that succeeded
C12_WitnessSaved ==
    /\ last.op = "save"
    /\ pc = "saved"
    /\ Len(last.pre.updated) = 2

C14_AddVaultCollision ==
    last.op = "add_vault" =>
        /\ last.name \in DOMAIN last.pre.vaults =>
               /\ ~last.ret.ok
               /\ last.ret.err = VaultAlreadyExists
               /\ vaults = last.pre.vaults
               /\ default_vault = last.pre.default_vault
               /\ updated = last.pre.updated
        /\ (last.name \notin DOMAIN last.pre.vaults /\ last.ret.ok) =>
               /\ DOMAIN vaults = DOMAIN last.pre.vaults \cup {last.name}
               /\ \A n \in DOMAIN last.pre.vaults : vaults[n] = last.pre.vaults[n]

\* add_vault with a name that is registered
C14_Witness ==
    /\ last.op = "add_vault"
    /\ last.name \in DOMAIN last.pre.vaults

\* add_vault with a new name, beside a vault that is registered
C14_WitnessAdded ==
    /\ last.op = "add_vault"
    /\ last.name \notin DOMAIN last.pre.vaults
    /\ last.ret.ok
    /\ DOMAIN last.pre.vaults # {}

\* C25: every name of the updated list is a key of the registry and is in
\* the list once, so the expect of save() does not panic and save() writes
\* no vault twice.
C25_DirtySubsetOfRegistry ==
    /\ Range(updated) \subseteq DOMAIN vaults
    /\ Cardinality(Range(updated)) = Len(updated)
    /\ pc # "panicked"
    /\ (last.op = "save" /\ pc = "saved") =>
           \A id \in DOMAIN remote : remote[id].version <= last.remote[id].version + 1

\* a Config with two vaults added, saved
C25_Witness ==
    /\ last.op = "save"
    /\ pc = "saved"
    /\ Len(updated) = 2

\* C27: the default vault is unset or the name of a vault of the registry,
\* whatever operations of the Config ran.
C27_DefaultVaultRegistered ==
    (pc = "loaded" /\ default_vault.some) => default_vault.v \in DOMAIN vaults

\* what the code does: set_default_vault stores the name it is given
C27_CodeStoresAnyName ==
    last.op = "set_default_vault" => default_vault = Some(last.name)

\* C10: every vault whose store set_secret or remove_secret changed since
\* load is in the dirty list, and save() writes it to its backing secret.
C10_DirtyVaultsPersisted ==
    /\ pc = "loaded" => \A n \in mutated : n \in Range(updated)
    /\ pc = "saved" =>
          \A n \in mutated :
              remote[vaults[n].secret_info.id].payload
                  = Some(to_string_pretty(vaults[n].secret_value))

\* the same, stated of save() alone: once saved, the backing secret of every
\* vault changed since load holds the vault's store
C10_SavedVaultsPersisted ==
    pc = "saved" =>
        \A n \in mutated :
            remote[vaults[n].secret_info.id].payload
                = Some(to_string_pretty(vaults[n].secret_value))

(***************************************************************************)
(* Properties of the Config aggregate.                                     *)
(***************************************************************************)
\* ref resolves in the store d by ancestor-override lookup
Resolves(d, ref) == MostSpecific(d, ref.path, ref.key) # None

\* C6: for a registered vault V, set(keyRef, SecretRef(V, ref)) is accepted
\* exactly when ref resolves in V's store by ancestor-override lookup; when
\* it does not, the call fails with SecretNotFound and the config store, the
\* registry, the default vault, the context and the dirty list are as they
\* were.  A Literal is always accepted.
C6_GuardedSecretWrite ==
    last.op = "set" =>
        LET v == last.value
            kr == last.key_ref
            pre == last.pre
        IN  /\ v.kind = "Value" =>
                  /\ last.ret.ok
                  /\ ExactEntry(config, kr.path, kr.key) = Some(v)
            /\ (v.kind = "Secret" /\ v.name \in DOMAIN pre.vaults) =>
                  LET resolves == Resolves(pre.vaults[v.name].secret_value,
                                           v.key_ref)
                  IN  /\ last.ret.ok <=> resolves
                      /\ resolves =>
                            ExactEntry(config, kr.path, kr.key) = Some(v)
                      /\ ~resolves =>
                            /\ last.ret = Err(SecretNotFound(v.name, v.key_ref))
                            /\ PreConfig = pre
                            /\ Config_get(config, vaults, kr)
                                  = Config_get(pre.config, pre.vaults, kr)

\* a SecretRef refused for a key that already had a value
C6_Witness ==
    /\ last.op = "set"
    /\ ~last.ret.ok
    /\ last.ret.err.kind = "SecretNotFound"
    /\ Configuration_get(config, last.key_ref) # None

\* a SecretRef accepted because an ancestor of its path defines the key
C6_WitnessAccepted ==
    /\ last.op = "set"
    /\ last.ret.ok
    /\ last.value.kind = "Secret"
    /\ ExactEntry(vaults[last.value.name].secret_value,
                  last.value.key_ref.path, last.value.key_ref.key) = None

\* C7: get(keyRef) is none when the config store has no value for keyRef
\* under ancestor-override lookup; a Literal resolves to itself; a
\* SecretRef(V, ref) resolves to the ancestor-override lookup of ref in V's
\* own store, none when V is not registered or ref does not resolve there.
C7_GetResolution ==
    last.op = "get" =>
        LET found == MostSpecific(config, last.key_ref.path, last.key_ref.key)
        IN  IF found = None THEN last.ret = None
            ELSE IF found.v.kind = "Value" THEN last.ret = Some(found.v.v)
            ELSE IF found.v.name \notin DOMAIN vaults THEN last.ret = None
            ELSE last.ret = MostSpecific(vaults[found.v.name].secret_value,
                                         found.v.key_ref.path,
                                         found.v.key_ref.key)

\* a get that resolved a SecretRef in its vault while the other vault holds
\* another value for the same reference
C7_Witness ==
    /\ last.op = "get"
    /\ last.ret # None
    /\ Configuration_get(config, last.key_ref).v.kind = "Secret"
    /\ \E n \in DOMAIN vaults :
          /\ n # Configuration_get(config, last.key_ref).v.name
          /\ Configuration_get(vaults[n].secret_value,
                 Configuration_get(config, last.key_ref).v.key_ref)
                 \notin {None, last.ret}

\* a get of a SecretRef whose vault is not registered, while a registered
\* vault would resolve the reference
C7_WitnessUnregistered ==
    /\ last.op = "get"
    /\ last.ret = None
    /\ Configuration_get(config, last.key_ref) # None
    /\ Configuration_get(config, last.key_ref).v.kind = "Secret"
    /\ Configuration_get(config, last.key_ref).v.name \notin DOMAIN vaults
    /\ \E n \in DOMAIN vaults :
          Configuration_get(vaults[n].secret_value,
              Configuration_get(config, last.key_ref).v.key_ref) # None

\* a secret reference of the store that does not resolve: its vault is not
\* registered, or the vault has no value for the key
Unresolved(v) ==
    v.kind = "Secret" /\ ~resolve_secret(vaults, v.name, v.key_ref).some

\* C19: where a concrete value is required, a Secret that does not resolve
\* gives no value: Config::get returns none for it, and get_all (the export
\* of a context) has no entry for its key, never the text Display shows.
C19_NoPlaceholder ==
    /\ last.op = "get" =>
           LET v == Configuration_get(config, last.key_ref)
           IN  (v.some /\ Unresolved(v.v)) => last.ret = None
    /\ last.op = "get_all" =>
           LET all == Configuration_get_all(config, last.path)
           IN  \A k \in DOMAIN all :
                   Unresolved(all[k]) =>
                       (k \notin DOMAIN last.ret
                           \/ last.ret[k] # ConfigValue_to_string(all[k]))

\* what the code does: get_all has an entry for every key of the fold, and
\* for a Secret that does not resolve the entry is the text Display shows
C19_CodeExportsPlaceholder ==
    last.op = "get_all" =>
        LET all == Configuration_get_all(config, last.path)
        IN  /\ DOMAIN last.ret = DOMAIN all
            /\ \A k \in DOMAIN all :
                   Unresolved(all[k]) => last.ret[k] = ConfigValue_to_string(all[k])

\* C9: get_vault_name(explicit) is the explicit name when one is given,
\* otherwise the default when one is set, and VaultNotSpecified only when
\* there is neither.
C9_EffectiveVault ==
    last.op = "get_vault_name" =>
        /\ last.name.some => last.ret = Ok(last.name.v)
        /\ (~last.name.some /\ default_vault.some) =>
              last.ret = Ok(default_vault.v)
        /\ (last.ret = Err(VaultNotSpecified)) <=>
              (~last.name.some /\ ~default_vault.some)

(***************************************************************************)
(* The commands: one invocation of the program from main to its exit.      *)
(* A Config is the record Config_load returns; an invocation ends with     *)
(* its result, the Config it held, the descriptor file, the backing store  *)
(* and whether Config::save was called.                                    *)
(***************************************************************************)
MaxCliOps == 2

Exit(ret, c, f, rem, save_called) ==
    [ret |-> ret, config |-> c, file |-> f, remote |-> rem,
     save_called |-> save_called]

\* the element of a set of one element
The(S) == CHOOSE x \in S : TRUE

\* Config::save of the Config self, from a handler: the exit of the
\* invocation
Config_save(c, f, rem, down) ==
    The({The({Exit(IF saved.panic THEN Err([kind |-> "panic"])
                   ELSE IF saved.failed THEN Err([kind |-> "VaultError"])
                   ELSE Ok(<<>>),
                   [self EXCEPT !.vaults = saved.vaults],
                   write_descriptor(saved, f, to_writer_pretty(
                       ConfigFileData(self.config, saved.vaults,
                                      self.default_vault, self.context))),
                   saved.remote, TRUE) :
              saved \in {save_updated(self.vaults, rem, self.updated, down)}}) :
         self \in {c}})

\* commands::init_config: the default descriptor written if the file is absent
init_config(f) ==
    IF f.some THEN f ELSE Some(to_writer_pretty(ConfigFileData_default))

\* commands::print_config: the key's value, or every value under the key
\* read as a path, or an error
print_config(c, key) ==
    IF Config_get(c.config, c.vaults, key).some THEN Ok(<<>>)
    ELSE IF DOMAIN Config_get_all(c.config, c.vaults,
                                  join(key.path, path_of(key.key))) # {}
    THEN Ok(<<>>)
    ELSE Err([kind |-> "Missing key", key |-> key])

\* commands::read_from_env: each key=value line set in the config store
RECURSIVE read_from_env(_, _, _)
read_from_env(lines, path, cfg) ==
    IF lines = <<>> THEN Ok(cfg)
    ELSE LET key_ref == parse_key_ref(Head(lines).key, path)
         IN  IF ~key_ref.ok THEN key_ref
             ELSE read_from_env(Tail(lines), path,
                      Configuration_set(cfg, key_ref.v, Value(Head(lines).value)))

\* ConfigValue::from_value, ConfigValue::from_secret
ConfigValue_from(value) ==
    IF value.kind = "value" THEN Ok(Value(value.value))
    ELSE LET key_ref == KeyRef_from_str(value.secret)
         IN  IF ~key_ref.ok THEN key_ref ELSE Ok(Secret(value.name, key_ref.v))

\* commands::handle_config
handle_config(c, cli, f, rem, down) ==
    LET path == get_path(c.context, cli.cwd)
    IN  CASE cli.cmd = "config get" ->
               LET key_ref == parse_key_ref(
                       IF cli.key.some THEN cli.key.v ELSE <<>>, path)
               IN  IF ~key_ref.ok THEN Exit(key_ref, c, f, rem, FALSE)
                   ELSE Exit(print_config(c, key_ref.v), c, f, rem, FALSE)
          [] cli.cmd = "config set" ->
               LET key_ref == parse_key_ref(cli.key, path)
                   value == ConfigValue_from(cli.value)
                   res == Config_set(c.config, c.vaults, key_ref.v, value.v)
               IN  IF ~key_ref.ok THEN Exit(key_ref, c, f, rem, FALSE)
                   ELSE IF ~value.ok THEN Exit(value, c, f, rem, FALSE)
                   ELSE IF ~res.ret.ok THEN Exit(res.ret, c, f, rem, FALSE)
                   ELSE Exit(Ok(<<>>), [c EXCEPT !.config = res.config],
                             f, rem, FALSE)
          [] cli.cmd = "config remove" ->
               LET key_ref == parse_key_ref(cli.key, path)
               IN  IF ~key_ref.ok THEN Exit(key_ref, c, f, rem, FALSE)
                   ELSE IF ~Configuration_remove_ret(c.config, key_ref.v).some
                   THEN Exit(Err([kind |-> "not found", key |-> key_ref.v]),
                             c, f, rem, FALSE)
                   ELSE Config_save(
                            [c EXCEPT !.config =
                                 Configuration_remove(@, key_ref.v)],
                            f, rem, down)
          [] cli.cmd = "config get-all" -> Exit(Ok(<<>>), c, f, rem, FALSE)
          [] cli.cmd = "config import" ->
               LET read == read_from_env(cli.lines, path, c.config)
               IN  IF ~read.ok THEN Exit(read, c, f, rem, FALSE)
                   ELSE Config_save([c EXCEPT !.config = read.v], f, rem, down)
          [] cli.cmd = "config export" -> Exit(Ok(<<>>), c, f, rem, FALSE)

\* AwsSecretVault::create: the secret of that name found, or created empty,
\* its value read, and the value written back (save_secret); the result
\* and the backing store after the call
AwsSecretVault_create(rem, secret_name, down) ==
    LET arn == SecretId(secret_name)
        found == arn \in DOMAIN rem
        rem1 == IF found THEN rem
                ELSE Insert(rem, arn, [version |-> 0, payload |-> None])
        value == IF found /\ rem[arn].payload.some
                 THEN from_str(rem[arn].payload.v) ELSE Ok(EmptyMap)
        info == InfoOf(secret_name, rem1[arn].version)
    IN  IF ~value.ok THEN [ret |-> value, remote |-> rem1]
        ELSE IF arn \in down
        THEN [ret |-> Err([kind |-> "AwsError"]), remote |-> rem1]
        ELSE [ret |-> Ok(save_secret(rem1, [secret_info |-> info,
                                            secret_value |-> value.v])),
              remote |-> update_secret(rem1, arn, to_string_pretty(value.v))]

\* commands::handle_create_secret
handle_create_secret(c, cli, f, rem, down) ==
    The({IF ~created.ret.ok THEN Exit(created.ret, c, f, created.remote, FALSE)
         ELSE The({
             LET c1 == [c EXCEPT !.vaults = added.vaults,
                                 !.updated = added.updated]
                 c2 == IF cli.set_default
                       THEN [c1 EXCEPT !.default_vault = Some(cli.name)]
                       ELSE c1
             IN  IF ~added.ret.ok
                 THEN Exit(added.ret, c, f, created.remote, FALSE)
                 ELSE Config_save(c2, f, created.remote, down) :
             added \in {add_vault(c.vaults, c.updated, created.remote,
                                  cli.name, created.ret.v.secret_info)}}) :
         created \in {AwsSecretVault_create(rem, cli.secret_name, down)}})

\* commands::handle_secrets
handle_secrets(c, cli, f, rem, down) ==
    LET vault_name == get_vault_name(c.default_vault, cli.vault_name)
        name == vault_name.v
        key_ref == KeyRef_from_str(cli.key)
        store == c.vaults[name].secret_value
    IN  IF cli.cmd = "vault create"
        THEN handle_create_secret(c, cli, f, rem, down)
        ELSE IF ~vault_name.ok THEN Exit(vault_name, c, f, rem, FALSE)
        ELSE CASE cli.cmd = "vault set" ->
               IF ~key_ref.ok THEN Exit(key_ref, c, f, rem, FALSE)
               ELSE IF name \notin DOMAIN c.vaults
               THEN Exit(Err(VaultNotFound(name)), c, f, rem, FALSE)
               ELSE Config_save(
                        [c EXCEPT !.vaults[name].secret_value =
                             Configuration_set(@, key_ref.v, cli.value)],
                        f, rem, down)
          [] cli.cmd = "vault get" ->
               IF ~key_ref.ok THEN Exit(key_ref, c, f, rem, FALSE)
               ELSE IF name \notin DOMAIN c.vaults
               THEN Exit(Err(VaultNotFound(name)), c, f, rem, FALSE)
               ELSE IF Configuration_get(store, key_ref.v).some
               THEN Exit(Ok(<<>>), c, f, rem, FALSE)
               ELSE IF DOMAIN Configuration_get_all(store,
                          join(key_ref.v.path, path_of(key_ref.v.key))) # {}
               THEN Exit(Ok(<<>>), c, f, rem, FALSE)
               ELSE Exit(Err([kind |-> "not found", key |-> cli.key]),
                         c, f, rem, FALSE)
          [] cli.cmd = "vault remove" ->
               IF ~key_ref.ok THEN Exit(key_ref, c, f, rem, FALSE)
               ELSE IF name \notin DOMAIN c.vaults
               THEN Exit(Err(VaultNotFound(name)), c, f, rem, FALSE)
               ELSE IF ~Configuration_remove_ret(store, key_ref.v).some
               THEN Exit(Err([kind |-> "not found", key |-> cli.key]),
                         [c EXCEPT !.vaults[name].secret_value =
                              Configuration_remove(@, key_ref.v)],
                         f, rem, FALSE)
               ELSE Config_save(
                        [c EXCEPT !.vaults[name].secret_value =
                             Configuration_remove(@, key_ref.v)],
                        f, rem, down)
          [] cli.cmd = "vault set-default" ->
               Exit(Ok(<<>>), [c EXCEPT !.default_vault = Some(name)],
                    f, rem, FALSE)
          [] cli.cmd = "vault get-all" ->
               IF name \notin DOMAIN c.vaults
               THEN Exit(Err(VaultNotFound(name)), c, f, rem, FALSE)
               ELSE Exit(Ok(<<>>), c, f, rem, FALSE)

\* the commands of each family
ConfigCommandNames ==
    {"config get", "config set", "config remove", "config get-all",
     "config import", "config export"}

SecretCommandNames ==
    {"vault create", "vault set", "vault get", "vault remove",
     "vault set-default", "vault get-all"}

\* no Config: the load failed
NoConfig ==
    [config |-> EmptyMap, context |-> <<>>, default_vault |-> None,
     vaults |-> EmptyMap, updated |-> <<>>]

\* main: the descriptor initialised, the Config loaded, the command handled
main(cli, f, rem, down) ==
    The({The({
        IF ~loaded.ok THEN Exit(loaded, NoConfig, f1, rem, FALSE)
        ELSE CASE cli.cmd \in ConfigCommandNames ->
                    handle_config(loaded.v, cli, f1, rem, down)
               [] cli.cmd \in SecretCommandNames ->
                    handle_secrets(loaded.v, cli, f1, rem, down)
               [] cli.cmd = "context set" ->
                    Config_save([loaded.v EXCEPT !.context = cli.context],
                                f1, rem, down)
               [] cli.cmd = "context get" ->
                    Config_save(loaded.v, f1, rem, down)
               [] cli.cmd = "context reset" ->
                    Config_save([loaded.v EXCEPT !.context = <<>>],
                                f1, rem, down) :
        loaded \in {Config_load(f1, rem)}}) :
     f1 \in {init_config(f)}})

\* the command lines
KeyK == <<"k">>

KeyDevPass == <<"dev", ".", "pass">>

VNew == <<"new">>

CtxDev == <<<<"dev">>>>

ConfigCommands ==
    [cmd : {"config get"}, cwd : {Root}, key : {None, Some(KeyK)}]
    \cup [cmd : {"config set"}, cwd : {Root}, key : {KeyK},
          value : {[kind |-> "value", value |-> <<"lit">>],
                   [kind |-> "secret", name |-> VMain, secret |-> KeyDevPass]}]
    \cup [cmd : {"config remove"}, cwd : {Root}, key : {KeyK}]
    \cup [cmd : {"config get-all", "config export"}, cwd : {Root}]
    \cup [cmd : {"config import"}, cwd : {Root},
          lines : {<<[key |-> KeyK, value |-> <<"imp">>]>>}]

OptVaultNames == {None} \cup {Some(n) : n \in VaultNames}

SecretCommands ==
    [cmd : {"vault create"}, vault_name : {None}, name : VaultNames,
     set_default : BOOLEAN, secret_name : {VAux, VNew}]
    \cup [cmd : {"vault set"}, vault_name : OptVaultNames,
          key : {KeyDevPass}, value : {<<"new">>}]
    \cup [cmd : {"vault get", "vault remove"}, vault_name : OptVaultNames,
          key : {KeyDevPass}]
    \cup [cmd : {"vault set-default", "vault get-all"},
          vault_name : OptVaultNames]

ContextCommands ==
    [cmd : {"context get", "context reset"}]
    \cup [cmd : {"context set"}, context : {CtxDev}]

\* the secrets whose write may fail during one invocation
CliDowns == {{}, {SecretId(VAux)}}

InitCli ==
    /\ remote = InitialRemote
    /\ file \in InitialFiles
    /\ config = EmptyMap
    /\ vaults = EmptyMap
    /\ default_vault = None
    /\ context = <<>>
    /\ updated = <<>>
    /\ pc = "start"
    /\ mutated = {}
    /\ input = NoInput
    /\ last = NoLast
    /\ nops = 0
    /\ cwd = Root
    /\ data = EmptyMap

\* one invocation of the program
Run(cli, down) ==
    \E exit \in {main(cli, file, remote, down)} :
        /\ nops < MaxCliOps
        /\ nops' = nops + 1
        /\ file' = exit.file
        /\ remote' = exit.remote
        /\ config' = exit.config.config
        /\ vaults' = exit.config.vaults
        /\ default_vault' = exit.config.default_vault
        /\ context' = exit.config.context
        /\ updated' = exit.config.updated
        /\ pc' = IF exit.ret.ok THEN "exit 0" ELSE "exit 1"
        /\ last' = [op |-> cli.cmd, cli |-> cli, ret |-> exit.ret,
                    save_called |-> exit.save_called,
                    file |-> file, init_file |-> init_config(file),
                    remote |-> remote,
                    pre |-> Config_load(init_config(file), remote)]
        /\ UNCHANGED <<storeVars, mutated, input>>

NextCli ==
    \/ \E cli \in ConfigCommands, down \in CliDowns : Run(cli, down)
    \/ \E cli \in SecretCommands, down \in CliDowns : Run(cli, down)
    \/ \E cli \in ContextCommands, down \in CliDowns : Run(cli, down)

SpecCli == InitCli /\ [][NextCli]_vars

\* the commands that only read, and those that change the Config
ReadOnlyCommands ==
    {"config get", "config get-all", "config export", "vault get",
     "vault get-all", "context get"}

MutatingCommands ==
    {"config set", "config remove", "config import", "vault set",
     "vault remove", "vault create", "vault set-default", "context set",
     "context reset"}

\* C21: an invocation of a read-only command ends without a call of save()
\* and leaves the descriptor, as init_config left it, and every backing
\* secret as they were; save() is called only by the mutating commands.
C21_ReadOnlyNoSave ==
    /\ last.op \in ReadOnlyCommands =>
           /\ ~last.save_called
           /\ file = last.init_file
           /\ remote = last.remote
    /\ (last.op # "none" /\ last.save_called) => last.op \in MutatingCommands

\* what the code does: context get saves the Config it loaded; the other
\* read-only commands do not
C21_CodeContextGetSaves ==
    /\ (last.op = "context get" /\ last.pre.ok) => last.save_called
    /\ last.op \in ReadOnlyCommands \ {"context get"} => ~last.save_called

\* C23: a config set that succeeds is persisted, the Config of the next
\* invocation holds what this one held at its exit; and every mutating
\* command that succeeds has called save().
C23_MutationsPersisted ==
    /\ (last.op = "config set" /\ last.ret.ok) =>
           /\ Config_load(file, remote).ok
           /\ Config_load(file, remote).v.config = config
    /\ (last.op \in MutatingCommands /\ last.ret.ok) => last.save_called

\* what the code does: config set and vault set-default never save, the
\* other mutating commands save before they succeed
C23_CodeSetNeverSaves ==
    /\ last.op \in {"config set", "vault set-default"} =>
           /\ ~last.save_called
           /\ file = last.init_file
    /\ (last.op \in MutatingCommands \ {"config set", "vault set-default"}
            /\ last.ret.ok) => last.save_called

\* C24: vault set-default with the name N given while another default D is
\* configured succeeds and leaves N as the default.
C24_SetDefaultExplicit ==
    (/\ last.op = "vault set-default"
     /\ last.pre.ok
     /\ last.cli.vault_name.some
     /\ last.pre.v.default_vault.some
     /\ last.pre.v.default_vault # last.cli.vault_name) =>
        /\ last.ret.ok
        /\ default_vault = last.cli.vault_name

\* what the code does: the configured default stays
C24_CodeKeepsDefault ==
    (/\ last.op = "vault set-default"
     /\ last.pre.ok
     /\ last.pre.v.default_vault.some) =>
        default_vault = last.pre.v.default_vault

\* C28: a vault create that fails with VaultAlreadyExists leaves the
\* descriptor and every backing secret as they were.
C28_CreateCollisionNoEffect ==
    (last.op = "vault create" /\ last.ret = Err(VaultAlreadyExists)) =>
        /\ remote = last.remote
        /\ file = last.file

\* what the code does: the secret is created or rewritten before the
\* name is looked up in the registry
C28_CodeWritesBeforeCheck ==
    (last.op = "vault create" /\ last.ret = Err(VaultAlreadyExists)) =>
        /\ file = last.file
        /\ LET arn == SecretId(last.cli.secret_name)
           IN  /\ arn \in DOMAIN remote
               /\ arn \in DOMAIN last.remote =>
                      remote[arn].version = last.remote[arn].version + 1

====
